---- MODULE Spec2Model ----
(***************************************************************************)
(* CineTrack.  The backend (Express server, src/unnamed/part_000): the     *)
(* JSON store file, the six /api handlers and the interleaving of their    *)
(* read-modify-write cycles.  The frontend (React component,               *)
(* src/src/App.tsx): its state, its event handlers and effects, and the    *)
(* fetches it has in flight to the catalog and to the backend.             *)
(*                                                                         *)
(* A handler that passes its checks suspends at `await readStore()` and    *)
(* again at `await writeStore(store)`.  Each handler is therefore two      *)
(* steps: the first runs the checks, reads the file and computes the       *)
(* document to write (everything up to the second await); the second       *)
(* writes the file and sends the response.  A handler that fails a check   *)
(* answers in its first step.  fs.readFile and fs.writeFile are each taken *)
(* as one step on the file.                                                *)
(***************************************************************************)
EXTENDS Integers, Sequences, FiniteSets, Bags, TLC

VARIABLES
    file,      \* data/store.json
    inflight,  \* bag of the handlers suspended at `await writeStore(store)`
    clock,     \* the latest reading of Date.now() (ms); time passes between readings
    nreq,      \* requests received so far
    last,      \* the response the latest step sent (NoResponse when it sent none)
    log,       \* history: the server start, then the requests that wrote the file, in write order
    env,              \* the frontend's surroundings: TMDB credentials present, API_BASE_URL
                      \* set, the identity of the browser's session cookie
    currentUser,      \* useState: the signed-in identity, NoUser for null
    feed,             \* useState: the selected feed
    movies,           \* useState: the browse list
    activeMovie,      \* useState: the movie in the detail panel, NoMovie for null
    loading,          \* useState: the loading flag
    recommendations,  \* useState: the recommendation list
    watchStates,      \* useState: the local watch states
    ratings,          \* useState: the local ratings
    calls,            \* bag of the catalog fetches awaited by loadMovies and loadRecommendations
    net,              \* bag of the backend requests and responses on their way
    clicks            \* user actions so far

serverVars == <<file, inflight, clock, nreq, last, log>>

appVars ==
    <<env, currentUser, feed, movies, activeMovie, loading, recommendations, watchStates,
      ratings, calls, net, clicks>>

vars == <<serverVars, appVars>>

(***************************************************************************)
(* Bounds of the model.                                                    *)
(***************************************************************************)
MaxReqs == 3
MaxInFlight == 2
MaxClock == 1
MaxClicks == 3

(***************************************************************************)
(* JavaScript values that occur in request bodies.  A number is its floor  *)
(* n and whether it has a fractional part; JSON carries no NaN/Infinity.   *)
(***************************************************************************)
Undefined == [t |-> "undefined", n |-> 0, frac |-> FALSE, s |-> "", cs |-> <<>>]
JSNull == [t |-> "null", n |-> 0, frac |-> FALSE, s |-> "", cs |-> <<>>]
Num(i) == [t |-> "number", n |-> i, frac |-> FALSE, s |-> "", cs |-> <<>>]
Frac(i) == [t |-> "number", n |-> i, frac |-> TRUE, s |-> "", cs |-> <<>>]
Str(x) == [t |-> "string", n |-> 0, frac |-> FALSE, s |-> x, cs |-> <<>>]
Text(chars) == [t |-> "string", n |-> 0, frac |-> FALSE, s |-> "", cs |-> chars]
NaN == [t |-> "NaN", n |-> 0, frac |-> FALSE, s |-> "", cs |-> <<>>]

\* a === b on the values above (NaN equals nothing)
StrictEq(a, b) == a.t # "NaN" /\ a = b

\* Number.isFinite(v): true of numbers only (no coercion of strings).
IsFinite(v) == v.t = "number"

\* Number.isInteger(v)
IsInteger(v) == v.t = "number" /\ ~v.frac

\* v < 1 and v > 5 on numbers given as floor and fractional flag
LessThan1(v) == v.n < 1
GreaterThan5(v) == v.n > 5 \/ (v.n = 5 /\ v.frac)

\* String.prototype.trim on a sequence of characters
RECURSIVE TrimStart(_)
TrimStart(cs) ==
    IF cs # <<>> /\ Head(cs) = " " THEN TrimStart(Tail(cs)) ELSE cs

RECURSIVE TrimEnd(_)
TrimEnd(cs) ==
    IF cs # <<>> /\ cs[Len(cs)] = " " THEN TrimEnd(SubSeq(cs, 1, Len(cs) - 1)) ELSE cs

Trim(cs) == TrimEnd(TrimStart(cs))

(***************************************************************************)
(* Objects: a JavaScript object is a function from its keys.               *)
(***************************************************************************)
EmptyObj == [k \in {} |-> 0]

Has(obj, k) == k \in DOMAIN obj

Put(obj, k, v) == [x \in (DOMAIN obj) \cup {k} |-> IF x = k THEN v ELSE obj[x]]

Delete(obj, k) == [x \in (DOMAIN obj) \ {k} |-> obj[x]]

(***************************************************************************)
(* Sessions.  req.user is the identity passport deserialises from the      *)
(* session, or absent.  Annie is the profile user 1 had at an earlier      *)
(* login, before the display name changed to Ann.                          *)
(***************************************************************************)
NoUser == [id |-> 0, displayName |-> ""]
Ann == [id |-> 1, displayName |-> "Ann"]
Annie == [id |-> 1, displayName |-> "Annie"]
Bob == [id |-> 2, displayName |-> "Bob"]
Identities == {Ann, Bob}
Sessions == Identities \cup {NoUser}
UserIds == {i.id : i \in Identities}

(***************************************************************************)
(* The store file.  parses = FALSE is a file whose text JSON.parse         *)
(* rejects.                                                                *)
(***************************************************************************)
EmptyStore == [users |-> EmptyObj, reviews |-> <<>>]

\* the file ensureStore creates, a file that does not parse, and a file left
\* by an earlier run in which user 1, then named Annie, marked movie 2 watched
InitialFile == [parses |-> TRUE, users |-> EmptyObj, reviews |-> <<>>]
MalformedFile == [parses |-> FALSE, users |-> EmptyObj, reviews |-> <<>>]
EarlierFile ==
    [parses |-> TRUE,
     users |-> (1 :> [watchStates |-> (2 :> Str("watched")), ratings |-> EmptyObj,
                      profile |-> Annie]),
     reviews |-> <<>>]

\* readStore(): the parsed document, or the empty default when the parse throws
readStore(f) ==
    IF f.parses THEN [users |-> f.users, reviews |-> f.reviews] ELSE EmptyStore

\* writeStore that merges: watch states the file holds and the document lacks are kept
writeStoreMerged(data) ==
    [parses |-> TRUE,
     users |-> [u \in DOMAIN data.users |->
                  IF file.parses /\ Has(file.users, u)
                  THEN [data.users[u] EXCEPT !.watchStates =
                          [k \in (DOMAIN file.users[u].watchStates) \cup (DOMAIN @) |->
                              IF Has(@, k) THEN @[k] ELSE file.users[u].watchStates[k]]]
                  ELSE data.users[u]],
     reviews |-> data.reviews]

\* writeStore(data): the whole document replaces the file
writeStore(data) == [parses |-> TRUE, users |-> data.users, reviews |-> data.reviews]

\* store.users[userId] ?? { watchStates: {}, ratings: {}, profile: req.user }
DefaultRecord(user) == [watchStates |-> EmptyObj, ratings |-> EmptyObj, profile |-> user]

RecordOrDefault(store, user) ==
    IF Has(store.users, user.id) THEN store.users[user.id] ELSE DefaultRecord(user)

(***************************************************************************)
(* Requests.  The bodies are small explicit sets holding, for each check   *)
(* of a handler, bodies that pass it and bodies that fail it.              *)
(***************************************************************************)
Body(movieId, status, rating, content) ==
    [movieId |-> movieId, status |-> status, rating |-> rating, content |-> content]

NoBody == Body(Undefined, Undefined, Undefined, Undefined)

StatusBodies ==
    { Body(Num(1), Str("watched"), Undefined, Undefined),
      Body(Num(2), Str("watching"), Undefined, Undefined),
      Body(Num(1), Str("watchlist"), Undefined, Undefined),
      Body(Num(1), JSNull, Undefined, Undefined),
      Body(Str("1"), Str("watched"), Undefined, Undefined),
      Body(Num(1), Str("seen"), Undefined, Undefined),
      Body(Num(2), Undefined, Undefined, Undefined) }

RatingBodies ==
    { Body(Num(1), Undefined, Num(5), Undefined),
      Body(Num(1), Undefined, Num(2), Undefined),
      Body(Num(1), Undefined, JSNull, Undefined),
      Body(Undefined, Undefined, Num(3), Undefined),
      Body(Num(1), Undefined, Num(0), Undefined),
      Body(Num(1), Undefined, Num(6), Undefined),
      Body(Num(2), Undefined, Frac(4), Undefined),
      Body(Num(2), Undefined, Str("5"), Undefined),
      Body(Num(1), Undefined, Undefined, Undefined) }

ReviewBodies ==
    { Body(Num(1), Undefined, Num(4), Text(<<" ", "a", " ">>)),
      Body(Num(2), Undefined, JSNull, Text(<<"b">>)),
      Body(Str("2"), Undefined, JSNull, Text(<<"a">>)),
      Body(Num(1), Undefined, JSNull, Text(<<>>)),
      Body(Num(1), Undefined, Num(5), Text(<<" ">>)),
      Body(Num(2), Undefined, Num(5), Undefined),
      Body(Num(2), Undefined, Num(7), Text(<<"a">>)),
      Body(Num(1), Undefined, Undefined, Text(<<"b">>)) }

\* Number(req.params.movieId) for the ids in the URL
ParamIds == {Num(1), Num(2), NaN}

Response(kind, code, json) == [kind |-> kind, code |-> code, json |-> json]

NoResponse == Response("none", 0, [none |-> TRUE])

\* requireAuth: the 401 answer when req.user is absent
Unauthorized == [code |-> 401, json |-> [error |-> "Unauthorized"]]
BadRequest(msg) == [code |-> 400, json |-> [error |-> msg]]
Pass == [code |-> 0, json |-> [none |-> TRUE]]

\* requireAuth that lets every request through
requireAuthOpen(user) == Pass

requireAuth(user) == IF user = NoUser THEN Unauthorized ELSE Pass

\* A handler suspended before its write: the document it will write.
Pending(kind, user, body, out) ==
    [kind |-> kind, user |-> user, body |-> body, readAt |-> Len(log), out |-> out]

Init ==
    /\ file \in {InitialFile, MalformedFile, EarlierFile}
    /\ inflight = EmptyBag
    /\ clock = 0
    /\ nreq = 0
    /\ last = NoResponse
    /\ log = <<[kind |-> "listen", user |-> NoUser, body |-> NoBody, readAt |-> 0,
                out |-> readStore(file)]>>

\* The request is answered at once: nothing is read or written.
Answer(kind, user, body, r) ==
    /\ last' = Response(kind, r.code, r.json)
    /\ nreq' = nreq + 1
    /\ UNCHANGED <<file, inflight, clock, log>>

\* Suspend whose read rewrites a file that does not parse with the initial document
SuspendRepairs(kind, user, body, out) ==
    /\ BagCardinality(inflight) < MaxInFlight
    /\ inflight' = inflight (+) SetToBag({Pending(kind, user, body, out)})
    /\ nreq' = nreq + 1
    /\ last' = NoResponse
    /\ file' = IF file.parses THEN file ELSE InitialFile
    /\ UNCHANGED log

\* The request passed its checks and read the file; it suspends at its write.
Suspend(kind, user, body, out) ==
    /\ BagCardinality(inflight) < MaxInFlight
    /\ inflight' = inflight (+) SetToBag({Pending(kind, user, body, out)})
    /\ nreq' = nreq + 1
    /\ last' = NoResponse
    /\ UNCHANGED <<file, log>>

\* `await writeStore(store)` completes and the response is sent.
Resume(r, code, json) ==
    /\ file' = writeStore(r.out)
    /\ inflight' = inflight (-) SetToBag({r})
    /\ last' = Response(r.kind, code, json)
    /\ log' = Append(log, [kind |-> r.kind, user |-> r.user, body |-> r.body,
                           readAt |-> r.readAt, out |-> r.out])
    /\ UNCHANGED <<clock, nreq>>

(***************************************************************************)
(* PUT /api/status                                                         *)
(***************************************************************************)
\* ValidStatus that accepts every string
ValidStatusAnyString(status) ==
    status.t = "string" \/ StrictEq(status, JSNull)

ValidStatus(status) ==
    \/ StrictEq(status, Str("watched"))
    \/ StrictEq(status, Str("watching"))
    \/ StrictEq(status, Str("watchlist"))
    \/ StrictEq(status, JSNull)

StatusChecks(user, body) ==
    IF requireAuth(user).code # 0 THEN Unauthorized
    ELSE IF ~IsFinite(body.movieId) THEN BadRequest("Invalid movieId")
    ELSE IF ~ValidStatus(body.status) THEN BadRequest("Invalid status")
    ELSE Pass

\* StatusUpdate with `delete userRecord.watchStates[movieId]` left out
StatusUpdateKeepsKey(store, user, body) ==
    LET userRecord == RecordOrDefault(store, user)
        recordWatchStates ==
            IF StrictEq(body.status, JSNull)
            THEN userRecord.watchStates
            ELSE Put(userRecord.watchStates, body.movieId.n, body.status)
    IN  [store EXCEPT !.users =
            Put(store.users, user.id, [userRecord EXCEPT !.watchStates = recordWatchStates])]

StatusUpdate(store, user, body) ==
    LET userRecord == RecordOrDefault(store, user)
        recordWatchStates ==
            IF StrictEq(body.status, JSNull)
            THEN Delete(userRecord.watchStates, body.movieId.n)
            ELSE Put(userRecord.watchStates, body.movieId.n, body.status)
    IN  [store EXCEPT !.users =
            Put(store.users, user.id, [userRecord EXCEPT !.watchStates = recordWatchStates])]

PutStatus(user, body) ==
    /\ nreq < MaxReqs
    /\ LET check == StatusChecks(user, body)
       IN  IF check.code # 0
           THEN Answer("PUT /api/status", user, body, check)
           ELSE /\ Suspend("PUT /api/status", user, body,
                           StatusUpdate(readStore(file), user, body))
                /\ UNCHANGED clock

PutStatusDone(r) ==
    /\ r.kind = "PUT /api/status"
    /\ Resume(r, 200, [watchStates |-> r.out.users[r.user.id].watchStates])

(***************************************************************************)
(* PUT /api/rating                                                         *)
(***************************************************************************)
\* ValidRating without `rating > 5`
ValidRatingNoMax(rating) ==
    StrictEq(rating, JSNull) \/ ~(~IsInteger(rating) \/ LessThan1(rating))

ValidRating(rating) ==
    StrictEq(rating, JSNull)
        \/ ~(~IsInteger(rating) \/ LessThan1(rating) \/ GreaterThan5(rating))

RatingChecks(user, body) ==
    IF requireAuth(user).code # 0 THEN Unauthorized
    ELSE IF ~IsFinite(body.movieId) THEN BadRequest("Invalid movieId")
    ELSE IF ~ValidRating(body.rating) THEN BadRequest("Invalid rating")
    ELSE Pass

\* RatingUpdate that also copies the new rating into the user's reviews of the movie
RatingUpdateRewritesReviews(store, user, body) ==
    LET userRecord == RecordOrDefault(store, user)
        recordRatings ==
            IF StrictEq(body.rating, JSNull)
            THEN Delete(userRecord.ratings, body.movieId.n)
            ELSE Put(userRecord.ratings, body.movieId.n, body.rating)
    IN  [users |-> Put(store.users, user.id, [userRecord EXCEPT !.ratings = recordRatings]),
         reviews |-> [k \in DOMAIN store.reviews |->
                        IF store.reviews[k].userId = user.id
                               /\ StrictEq(store.reviews[k].movieId, body.movieId)
                        THEN [store.reviews[k] EXCEPT !.rating = body.rating]
                        ELSE store.reviews[k]]]

\* RatingUpdate that lets a user rate a movie only once: a stored rating is kept
RatingUpdateOnce(store, user, body) ==
    LET userRecord == RecordOrDefault(store, user)
        recordRatings ==
            IF StrictEq(body.rating, JSNull)
            THEN Delete(userRecord.ratings, body.movieId.n)
            ELSE IF Has(userRecord.ratings, body.movieId.n) THEN userRecord.ratings
            ELSE Put(userRecord.ratings, body.movieId.n, body.rating)
    IN  [store EXCEPT !.users =
            Put(store.users, user.id, [userRecord EXCEPT !.ratings = recordRatings])]

RatingUpdate(store, user, body) ==
    LET userRecord == RecordOrDefault(store, user)
        recordRatings ==
            IF StrictEq(body.rating, JSNull)
            THEN Delete(userRecord.ratings, body.movieId.n)
            ELSE Put(userRecord.ratings, body.movieId.n, body.rating)
    IN  [store EXCEPT !.users =
            Put(store.users, user.id, [userRecord EXCEPT !.ratings = recordRatings])]

PutRating(user, body) ==
    /\ nreq < MaxReqs
    /\ LET check == RatingChecks(user, body)
       IN  IF check.code # 0
           THEN Answer("PUT /api/rating", user, body, check)
           ELSE /\ Suspend("PUT /api/rating", user, body,
                           RatingUpdate(readStore(file), user, body))
                /\ UNCHANGED clock

PutRatingDone(r) ==
    /\ r.kind = "PUT /api/rating"
    /\ Resume(r, 200, [ratings |-> r.out.users[r.user.id].ratings])

(***************************************************************************)
(* GET /api/me                                                             *)
(***************************************************************************)
\* MeUpdate that leaves the store as it read it
MeUpdateNoRecord(store, user) == store

\* MeUpdate with the spread last, { profile: req.user, ...existing }: a stored profile wins
MeUpdateKeepsProfile(store, user) ==
    LET existing ==
            IF Has(store.users, user.id) THEN store.users[user.id]
            ELSE [watchStates |-> EmptyObj, ratings |-> EmptyObj, profile |-> user]
    IN  [store EXCEPT !.users = Put(store.users, user.id, existing)]

\* store.users[userId] = { ...existing, profile: req.user }
MeUpdate(store, user) ==
    LET existing ==
            IF Has(store.users, user.id) THEN store.users[user.id]
            ELSE [watchStates |-> EmptyObj, ratings |-> EmptyObj, profile |-> NoUser]
    IN  [store EXCEPT !.users = Put(store.users, user.id, [existing EXCEPT !.profile = user])]

ApiMe(user) ==
    /\ nreq < MaxReqs
    /\ IF user = NoUser
       THEN Answer("GET /api/me", user, NoBody, [code |-> 200, json |-> [user |-> NoUser]])
       ELSE /\ Suspend("GET /api/me", user, NoBody, MeUpdate(readStore(file), user))
            /\ UNCHANGED clock

ApiMeDone(r) ==
    /\ r.kind = "GET /api/me"
    /\ Resume(r, 200, [user |-> r.user])

(***************************************************************************)
(* GET /api/user-data                                                      *)
(***************************************************************************)
UserDataUpdate(store, user) ==
    [store EXCEPT !.users = Put(store.users, user.id, RecordOrDefault(store, user))]

ApiUserData(user) ==
    /\ nreq < MaxReqs
    /\ LET check == requireAuth(user)
       IN  IF check.code # 0
           THEN Answer("GET /api/user-data", user, NoBody, check)
           ELSE /\ Suspend("GET /api/user-data", user, NoBody,
                           UserDataUpdate(readStore(file), user))
                /\ UNCHANGED clock

ApiUserDataDone(r) ==
    /\ r.kind = "GET /api/user-data"
    /\ Resume(r, 200, [watchStates |-> r.out.users[r.user.id].watchStates,
                       ratings |-> r.out.users[r.user.id].ratings])

(***************************************************************************)
(* POST /api/reviews                                                       *)
(***************************************************************************)
\* new Date().toISOString(): seconds and milliseconds of the instant, and
\* new Date(iso).getTime() back to milliseconds
ToISOString(ms) == [sec |-> ms \div 1000, msec |-> ms % 1000]
GetTime(iso) == iso.sec * 1000 + iso.msec

ReviewChecks(user, body) ==
    IF requireAuth(user).code # 0 THEN Unauthorized
    ELSE IF ~IsFinite(body.movieId) THEN BadRequest("Invalid movieId")
    ELSE IF body.content.t # "string" \/ Trim(body.content.cs) = <<>>
         THEN BadRequest("Review content is required")
    ELSE IF ~ValidRating(body.rating) THEN BadRequest("Invalid rating")
    ELSE Pass

\* NewReview with `content` in place of `content.trim()`
NewReviewUntrimmed(user, body, now) ==
    [id |-> <<body.movieId.n, now>>,
     movieId |-> body.movieId,
     author |-> user.displayName,
     rating |-> body.rating,
     content |-> body.content.cs,
     createdAt |-> ToISOString(now),
     userId |-> user.id]

\* The review object; Date.now() and new Date() read the clock in the same
\* synchronous block and are taken to fall in the same millisecond, now.
NewReview(user, body, now) ==
    [id |-> <<body.movieId.n, now>>,
     movieId |-> body.movieId,
     author |-> user.displayName,
     rating |-> body.rating,
     content |-> Trim(body.content.cs),
     createdAt |-> ToISOString(now),
     userId |-> user.id]

ReviewUpdate(store, review) == [store EXCEPT !.reviews = <<review>> \o store.reviews]

PostReviews(user, body) ==
    /\ nreq < MaxReqs
    /\ LET check == ReviewChecks(user, body)
       IN  IF check.code # 0
           THEN Answer("POST /api/reviews", user, body, check)
           ELSE \E now \in clock..MaxClock :
                  /\ clock' = now
                  /\ Suspend("POST /api/reviews", user, body,
                         ReviewUpdate(readStore(file), NewReview(user, body, now)))

PostReviewsDone(r) ==
    /\ r.kind = "POST /api/reviews"
    /\ Resume(r, 201, [review |-> Head(r.out.reviews)])

(***************************************************************************)
(* GET /api/reviews/:movieId                                               *)
(***************************************************************************)
\* the comparator with a and b exchanged
OldestFirstCompare(a, b) == GetTime(a.createdAt) - GetTime(b.createdAt)

\* the comparator (a, b) => new Date(b.createdAt).getTime() - new Date(a.createdAt).getTime()
NewestFirstCompare(a, b) == GetTime(b.createdAt) - GetTime(a.createdAt)

\* Array.prototype.sort is stable: x goes before the first element that must follow it
RECURSIVE InsertSorted(_, _)
InsertSorted(x, sorted) ==
    IF sorted = <<>> THEN <<x>>
    ELSE IF NewestFirstCompare(Head(sorted), x) > 0 THEN <<x>> \o sorted
    ELSE <<Head(sorted)>> \o InsertSorted(x, Tail(sorted))

RECURSIVE SortReviews(_)
SortReviews(reviews) ==
    IF reviews = <<>> THEN <<>>
    ELSE InsertSorted(reviews[Len(reviews)], SortReviews(SubSeq(reviews, 1, Len(reviews) - 1)))

ReviewsFor(store, movieId) ==
    LET Matches(review) == StrictEq(review.movieId, movieId)
    IN  SortReviews(SelectSeq(store.reviews, Matches))

ApiReviews(movieId) ==
    /\ nreq < MaxReqs
    /\ Answer("GET /api/reviews/:movieId", NoUser,
              [NoBody EXCEPT !.movieId = movieId],
              [code |-> 200, json |-> [reviews |-> ReviewsFor(readStore(file), movieId)]])

Next ==
    \/ \E u \in Sessions : ApiMe(u) /\ UNCHANGED appVars
    \/ \E r \in BagToSet(inflight) : ApiMeDone(r) /\ UNCHANGED appVars
    \/ \E u \in Sessions : ApiUserData(u) /\ UNCHANGED appVars
    \/ \E r \in BagToSet(inflight) : ApiUserDataDone(r) /\ UNCHANGED appVars
    \/ \E m \in ParamIds : ApiReviews(m) /\ UNCHANGED appVars
    \/ \E u \in Sessions, b \in StatusBodies : PutStatus(u, b) /\ UNCHANGED appVars
    \/ \E r \in BagToSet(inflight) : PutStatusDone(r) /\ UNCHANGED appVars
    \/ \E u \in Sessions, b \in RatingBodies : PutRating(u, b) /\ UNCHANGED appVars
    \/ \E r \in BagToSet(inflight) : PutRatingDone(r) /\ UNCHANGED appVars
    \/ \E u \in Sessions, b \in ReviewBodies : PostReviews(u, b) /\ UNCHANGED appVars
    \/ \E r \in BagToSet(inflight) : PostReviewsDone(r) /\ UNCHANGED appVars

(***************************************************************************)
(* The frontend, src/src/App.tsx.  A movie is its id and its genre_ids;    *)
(* the catalog (TMDB) is outside the program and answers each feed with a  *)
(* fixed list.  An event handler runs to its first await in one step,      *)
(* together with the effects React runs when the state it set changed;     *)
(* what follows an await is a step of its own, taken when the fetch        *)
(* settles.                                                                *)
(***************************************************************************)
Movie(id, genre_ids) == [id |-> id, genre_ids |-> genre_ids]

NoMovie == Movie(0, <<>>)

fallbackMovies ==
    <<Movie(90001, <<53, 18>>), Movie(90002, <<878, 18>>), Movie(90003, <<35, 18>>)>>

Feeds == {"trending", "top-rated", "recent"}

\* data.results of the catalog for a feed: two Action movies and a Drama, a
\* Drama and an Action/Drama, and nothing
TmdbResults(f) ==
    CASE f = "trending" -> <<Movie(11, <<28>>), Movie(12, <<28>>), Movie(13, <<18>>)>>
      [] f = "top-rated" -> <<Movie(13, <<18>>), Movie(14, <<28, 18>>)>>
      [] OTHER -> <<>>

\* data.results of /discover/movie for the ranked genres
DiscoverResults == {<<>>, <<Movie(14, <<28, 18>>), Movie(11, <<28>>)>>}

WatchStates == {"watched", "watching", "watchlist"}

\* the stars offered to the user that the model follows
Stars == {3, 4, 5}

\* Array.prototype.slice(0, n)
Slice(seq, n) == SubSeq(seq, 1, IF Len(seq) < n THEN Len(seq) ELSE n)

\* a catalog fetch awaited by loadMovies (feed) or by loadRecommendations (the
\* values its closure holds)
Call(kind, f, ms, ws, rs, ranked) ==
    [kind |-> kind, feed |-> f, movies |-> ms, watchStates |-> ws, ratings |-> rs,
     rankedGenres |-> ranked]

\* a fetch to the backend on its way to the server (the session cookie goes with
\* it), and a response on its way back
Request(kind, body) ==
    [to |-> "server", kind |-> kind, body |-> body, json |-> [none |-> TRUE]]

Reply(kind, json) == [to |-> "app", kind |-> kind, body |-> NoBody, json |-> json]

(***************************************************************************)
(* loadRecommendations                                                     *)
(***************************************************************************)
\* ratings[movie.id] ?? 0
RatingOrZero(rs, id) == IF Has(rs, id) THEN rs[id].n ELSE 0

\* watchStates[movie.id]
StatusOrUndefined(ws, id) == IF Has(ws, id) THEN ws[id] ELSE Undefined

isWeighted(ws, rs, movie) ==
    \/ StrictEq(StatusOrUndefined(ws, movie.id), Str("watched"))
    \/ StrictEq(StatusOrUndefined(ws, movie.id), Str("watchlist"))
    \/ RatingOrZero(rs, movie.id) >= 4

\* for (const genreId of movie.genre_ids ?? []) acc[genreId] = (acc[genreId] ?? 0) + w
RECURSIVE AddGenres(_, _, _)
AddGenres(acc, genre_ids, w) ==
    IF genre_ids = <<>> THEN acc
    ELSE LET genreId == Head(genre_ids)
         IN  AddGenres(Put(acc, genreId, (IF Has(acc, genreId) THEN acc[genreId] ELSE 0) + w),
                       Tail(genre_ids), w)

\* movies.reduce(..., {}): the movies are folded in from the first to the last
RECURSIVE GenreWeights(_, _, _)
GenreWeights(ms, ws, rs) ==
    IF ms = <<>> THEN EmptyObj
    ELSE LET acc == GenreWeights(SubSeq(ms, 1, Len(ms) - 1), ws, rs)
             movie == ms[Len(ms)]
         IN  IF ~isWeighted(ws, rs, movie) THEN acc
             ELSE AddGenres(acc, movie.genre_ids,
                            IF RatingOrZero(rs, movie.id) >= 4 THEN 2 ELSE 1)

\* Object.entries of an object with integer keys: the keys in ascending order
RECURSIVE Entries(_)
Entries(obj) ==
    IF DOMAIN obj = {} THEN <<>>
    ELSE LET k == CHOOSE x \in DOMAIN obj : \A y \in DOMAIN obj : x <= y
         IN  <<<<k, obj[k]>>>> \o Entries(Delete(obj, k))

\* the comparator with a and b exchanged
ByWeightAscending(a, b) == a[2] - b[2]

\* the comparator (a, b) => b[1] - a[1] (the weight is the second of the pair)
ByWeightCompare(a, b) == b[2] - a[2]

RECURSIVE InsertRanked(_, _)
InsertRanked(x, sorted) ==
    IF sorted = <<>> THEN <<x>>
    ELSE IF ByWeightCompare(Head(sorted), x) > 0 THEN <<x>> \o sorted
    ELSE <<Head(sorted)>> \o InsertRanked(x, Tail(sorted))

RECURSIVE SortRanked(_)
SortRanked(entries) ==
    IF entries = <<>> THEN <<>>
    ELSE InsertRanked(entries[Len(entries)],
                      SortRanked(SubSeq(entries, 1, Len(entries) - 1)))

\* .sort(...).slice(0, 2).map(([genreId]) => Number(genreId))
rankedGenres(ms, ws, rs) ==
    LET top == Slice(SortRanked(Entries(GenreWeights(ms, ws, rs))), 2)
    IN  [k \in DOMAIN top |-> top[k][1]]

\* movies.filter((movie) => !watchStates[movie.id] || watchStates[movie.id] === 'watchlist').slice(0, 8)
FallbackRecommendations(ms, ws) ==
    LET Keep(movie) == ~Has(ws, movie.id) \/ StrictEq(ws[movie.id], Str("watchlist"))
    IN  Slice(SelectSeq(ms, Keep), 8)

\* (data.results ?? []).filter((movie) => !watchStates[movie.id]).slice(0, 8)
CatalogRecommendations(results, ws) ==
    LET Keep(movie) == ~Has(ws, movie.id)
    IN  Slice(SelectSeq(results, Keep), 8)

\* loadRecommendations up to its await, run by the effect on [movies, watchStates,
\* ratings] with the values of the new render; rest is the other fetches awaited
loadRecommendations(ms, ws, rs, rest) ==
    LET ranked == rankedGenres(ms, ws, rs)
    IN  IF ~env.tmdb \/ Len(ranked) = 0
        THEN /\ recommendations' = FallbackRecommendations(ms, ws)
             /\ calls' = rest
        ELSE /\ calls' = rest (+) SetToBag({Call("loadRecommendations", "", ms, ws, rs, ranked)})
             /\ UNCHANGED recommendations

\* the catalog answered: loadRecommendations goes on after its await
RecommendationsRespond(c, results) ==
    /\ c.kind = "loadRecommendations"
    /\ recommendations' = CatalogRecommendations(results, c.watchStates)
    /\ calls' = calls (-) SetToBag({c})
    /\ UNCHANGED <<env, currentUser, feed, movies, activeMovie, loading, watchStates, ratings,
                   net, clicks>>
    /\ UNCHANGED serverVars

\* fetchTmdb threw: the catch branch
RecommendationsFail(c) ==
    /\ c.kind = "loadRecommendations"
    /\ recommendations' = Slice(c.movies, 8)
    /\ calls' = calls (-) SetToBag({c})
    /\ UNCHANGED <<env, currentUser, feed, movies, activeMovie, loading, watchStates, ratings,
                   net, clicks>>
    /\ UNCHANGED serverVars

(***************************************************************************)
(* loadMovies, run by the effect on [feed, selectedGenre, query]           *)
(***************************************************************************)
\* loadMovies up to its await, for the feed of the new render
loadMovies(f) ==
    IF ~env.tmdb
    THEN /\ movies' = fallbackMovies
         /\ activeMovie' = IF activeMovie # NoMovie THEN activeMovie ELSE fallbackMovies[1]
         /\ loading' = FALSE
         /\ IF movies # fallbackMovies
            THEN loadRecommendations(fallbackMovies, watchStates, ratings, calls)
            ELSE /\ recommendations' = Slice(fallbackMovies, 2)
                 /\ calls' = calls
    ELSE /\ loading' = TRUE
         /\ calls' = calls (+) SetToBag({Call("loadMovies", f, <<>>, EmptyObj, EmptyObj, <<>>)})
         /\ UNCHANGED <<movies, activeMovie, recommendations>>

\* a feed button other than the selected one is clicked
SelectFeed(f) ==
    /\ clicks < MaxClicks
    /\ f # feed
    /\ clicks' = clicks + 1
    /\ feed' = f
    /\ loadMovies(f)
    /\ UNCHANGED <<env, currentUser, watchStates, ratings, net>>
    /\ UNCHANGED serverVars

\* the catalog answered: loadMovies goes on after its await
MoviesRespond(c) ==
    /\ c.kind = "loadMovies"
    /\ LET nextMovies == Slice(TmdbResults(c.feed), 24)
       IN  /\ movies' = nextMovies
           /\ activeMovie' = IF nextMovies # <<>> THEN nextMovies[1] ELSE NoMovie
           /\ loading' = FALSE
           /\ loadRecommendations(nextMovies, watchStates, ratings, calls (-) SetToBag({c}))
    /\ UNCHANGED <<env, currentUser, feed, watchStates, ratings, net, clicks>>
    /\ UNCHANGED serverVars

\* fetchTmdb threw: the catch branch and finally
MoviesFail(c) ==
    /\ c.kind = "loadMovies"
    /\ movies' = fallbackMovies
    /\ activeMovie' = IF activeMovie # NoMovie THEN activeMovie ELSE fallbackMovies[1]
    /\ loading' = FALSE
    /\ IF movies # fallbackMovies
       THEN loadRecommendations(fallbackMovies, watchStates, ratings, calls (-) SetToBag({c}))
       ELSE /\ calls' = calls (-) SetToBag({c})
            /\ UNCHANGED recommendations
    /\ UNCHANGED <<env, currentUser, feed, watchStates, ratings, net, clicks>>
    /\ UNCHANGED serverVars

(***************************************************************************)
(* The status and rating buttons of a movie card                           *)
(***************************************************************************)
Shown(movieId) == \E k \in DOMAIN movies : movies[k].id = movieId

isSignedIn == currentUser # NoUser

\* fetch(`${API_BASE_URL}/...`, { credentials: 'include', ... }) when the backend is
\* configured and the user signed in
Fetch(kind, body) ==
    net' = IF env.api /\ isSignedIn
           THEN net (+) SetToBag({Request(kind, body)})
           ELSE net

onStatusChange(movieId, status) ==
    /\ clicks < MaxClicks
    /\ Shown(movieId)
    /\ clicks' = clicks + 1
    /\ watchStates' = Put(watchStates, movieId, Str(status))
    /\ loadRecommendations(movies, watchStates', ratings, calls)
    /\ Fetch("PUT /api/status", Body(Num(movieId), Str(status), Undefined, Undefined))
    /\ UNCHANGED <<env, currentUser, feed, movies, activeMovie, loading, ratings>>
    /\ UNCHANGED serverVars

onRatingChange(movieId, rating) ==
    /\ clicks < MaxClicks
    /\ Shown(movieId)
    /\ clicks' = clicks + 1
    /\ ratings' = Put(ratings, movieId, Num(rating))
    /\ loadRecommendations(movies, watchStates, ratings', calls)
    /\ Fetch("PUT /api/rating", Body(Num(movieId), Undefined, Num(rating), Undefined))
    /\ UNCHANGED <<env, currentUser, feed, movies, activeMovie, loading, watchStates>>
    /\ UNCHANGED serverVars

(***************************************************************************)
(* The component before it is mounted and after its first effects          *)
(***************************************************************************)
\* the useState initial values
Unmounted ==
    /\ env = [tmdb |-> FALSE, api |-> FALSE, session |-> NoUser]
    /\ currentUser = NoUser
    /\ feed = "trending"
    /\ movies = <<>>
    /\ activeMovie = NoMovie
    /\ loading = TRUE
    /\ recommendations = <<>>
    /\ watchStates = EmptyObj
    /\ ratings = EmptyObj
    /\ calls = EmptyBag
    /\ net = EmptyBag
    /\ clicks = 0

\* after the effects of the first render: loadMovies has set the sample movies
\* (no credentials) or awaits the catalog; loadRecommendations has run on the
\* browse list of that render
Mounted ==
    /\ currentUser = NoUser
    /\ feed = "trending"
    /\ watchStates = EmptyObj
    /\ ratings = EmptyObj
    /\ clicks = 0
    /\ IF ~env.tmdb
       THEN /\ movies = fallbackMovies
            /\ activeMovie = fallbackMovies[1]
            /\ loading = FALSE
            /\ recommendations = FallbackRecommendations(fallbackMovies, EmptyObj)
            /\ calls = EmptyBag
       ELSE /\ movies = <<>>
            /\ activeMovie = NoMovie
            /\ loading = TRUE
            /\ recommendations = <<>>
            /\ calls = SetToBag({Call("loadMovies", "trending", <<>>, EmptyObj, EmptyObj, <<>>)})

(***************************************************************************)
(* The backend alone: requests arrive from any client.                     *)
(***************************************************************************)
ServerInit == Init /\ Unmounted

Spec == ServerInit /\ [][Next]_vars

(***************************************************************************)
(* The frontend as a guest (no backend configured), with and without       *)
(* catalog credentials.                                                    *)
(***************************************************************************)
AppInit ==
    /\ Init
    /\ file = InitialFile
    /\ env \in {[tmdb |-> TRUE, api |-> FALSE, session |-> NoUser],
                 [tmdb |-> FALSE, api |-> FALSE, session |-> NoUser]}
    /\ net = EmptyBag
    /\ Mounted

AppNext ==
    \/ \E f \in Feeds : SelectFeed(f)
    \/ \E c \in BagToSet(calls) : MoviesRespond(c)
    \/ \E c \in BagToSet(calls) : MoviesFail(c)
    \/ \E k \in DOMAIN movies, s \in WatchStates : onStatusChange(movies[k].id, s)
    \/ \E k \in DOMAIN movies, r \in Stars : onRatingChange(movies[k].id, r)
    \/ \E c \in BagToSet(calls), results \in DiscoverResults : RecommendationsRespond(c, results)
    \/ \E c \in BagToSet(calls) : RecommendationsFail(c)

AppSpec == AppInit /\ [][AppNext]_vars

(***************************************************************************)
(* The frontend with the backend configured, in a browser whose session    *)
(* is signed in.  The frontend's requests are served by the handlers       *)
(* above: req.user is the identity of the session.  A fetch whose request  *)
(* does not reach the server rejects.  The response to a PUT resolves the  *)
(* await of onStatusChange or onRatingChange, which does nothing more.     *)
(***************************************************************************)
\* the message is taken off the network and the messages of sent are put on it
Arrived(msg, kind, sent) ==
    /\ msg.kind = kind
    /\ net' = (net (-) SetToBag({msg})) (+) sent
    /\ UNCHANGED <<env, feed, movies, activeMovie, loading, clicks>>

AtServer(msg, kind) ==
    /\ msg.to = "server"
    /\ Arrived(msg, kind, EmptyBag)
    /\ UNCHANGED <<currentUser, watchStates, ratings, recommendations, calls>>

Answered(r) ==
    /\ net' = net (+) SetToBag({Reply(r.kind, last'.json)})
    /\ UNCHANGED <<env, currentUser, feed, movies, activeMovie, loading, recommendations,
                   watchStates, ratings, calls, clicks>>

AnsweredUnread ==
    UNCHANGED appVars

ServeMe(msg) == AtServer(msg, "GET /api/me") /\ ApiMe(env.session)

ServeMeDone(r) == ApiMeDone(r) /\ Answered(r)

ServeUserData(msg) == AtServer(msg, "GET /api/user-data") /\ ApiUserData(env.session)

ServeUserDataDone(r) == ApiUserDataDone(r) /\ Answered(r)

ServeStatus(msg) == AtServer(msg, "PUT /api/status") /\ PutStatus(env.session, msg.body)

ServeStatusDone(r) == PutStatusDone(r) /\ AnsweredUnread

ServeRating(msg) == AtServer(msg, "PUT /api/rating") /\ PutRating(env.session, msg.body)

ServeRatingDone(r) == PutRatingDone(r) /\ AnsweredUnread

\* loadSession after its await: setCurrentUser(data.user); isSignedIn turns true
\* and its effect runs loadUserData up to its await
SessionLoaded(msg) ==
    /\ msg.to = "app"
    /\ msg.kind = "GET /api/me"
    /\ currentUser' = msg.json.user
    /\ Arrived(msg, "GET /api/me",
               IF env.api /\ currentUser = NoUser /\ currentUser' # NoUser
               THEN SetToBag({Request("GET /api/user-data", NoBody)})
               ELSE EmptyBag)
    /\ UNCHANGED <<watchStates, ratings, recommendations, calls>>
    /\ UNCHANGED serverVars

\* loadUserData after its await: setWatchStates, setRatings, and the effect on them
UserDataLoaded(msg) ==
    /\ msg.to = "app"
    /\ Arrived(msg, "GET /api/user-data", EmptyBag)
    /\ watchStates' = msg.json.watchStates
    /\ ratings' = msg.json.ratings
    /\ loadRecommendations(movies, watchStates', ratings', calls)
    /\ UNCHANGED currentUser
    /\ UNCHANGED serverVars

\* the request does not reach the server and fetch rejects: the catch branches set
\* the error banner (loadSession: setCurrentUser(null), with currentUser still null)
FetchFails(msg) ==
    /\ msg.to = "server"
    /\ Arrived(msg, msg.kind, EmptyBag)
    /\ UNCHANGED <<currentUser, watchStates, ratings, recommendations, calls>>
    /\ UNCHANGED serverVars

\* after mount: loadSession awaits GET /api/me
TrackInit ==
    /\ Init
    /\ env = [tmdb |-> FALSE, api |-> TRUE, session |-> Ann]
    /\ net = SetToBag({Request("GET /api/me", NoBody)})
    /\ Mounted

TrackNext ==
    \/ \E k \in DOMAIN movies, s \in WatchStates : onStatusChange(movies[k].id, s)
    \/ \E k \in DOMAIN movies, r \in Stars : onRatingChange(movies[k].id, r)
    \/ \E msg \in BagToSet(net) : ServeMe(msg)
    \/ \E r \in BagToSet(inflight) : ServeMeDone(r)
    \/ \E msg \in BagToSet(net) : SessionLoaded(msg)
    \/ \E msg \in BagToSet(net) : ServeUserData(msg)
    \/ \E r \in BagToSet(inflight) : ServeUserDataDone(r)
    \/ \E msg \in BagToSet(net) : UserDataLoaded(msg)
    \/ \E msg \in BagToSet(net) : ServeStatus(msg)
    \/ \E r \in BagToSet(inflight) : ServeStatusDone(r)
    \/ \E msg \in BagToSet(net) : ServeRating(msg)
    \/ \E r \in BagToSet(inflight) : ServeRatingDone(r)
    \/ \E msg \in BagToSet(net) : FetchFails(msg)

TrackSpec == TrackInit /\ [][TrackNext]_vars

(***************************************************************************)
(* History.  log[1] is the server start; log[i], i > 1, is the i-th        *)
(* version of the file and the request that wrote it.  A request that read *)
(* version k (readAt = k) and writes after version i > k was written       *)
(* replaces version i by a document computed from version k.               *)
(***************************************************************************)
WriteIndexes == 2..Len(log)

\* a write after version i, up to version upTo, by a request that read before version i
StaleWriteAfter(i, upTo) == \E j \in (i + 1)..upTo : log[j].readAt < i

IsWrite(i, kind, userId, movie) ==
    /\ log[i].kind = kind
    /\ log[i].user.id = userId
    /\ log[i].body.movieId.n = movie

\* the value an object returned to the client holds under a movie id, JSNull when the key is absent
ValueAt(obj, movie) == IF Has(obj, movie) THEN obj[movie] ELSE JSNull

KeyReflects(obj, movie, value) ==
    IF value = JSNull THEN ~Has(obj, movie) ELSE Has(obj, movie) /\ obj[movie] = value

\* the latest step answered GET /api/user-data; its request is the last entry of the log
UserDataAnswered == last.kind = "GET /api/user-data" /\ last.code = 200

\* write i is the latest PUT of `kind` by the user of the GET for its movie before the GET read
LatestPutBefore(i, kind, get) ==
    /\ i \in 2..get.readAt
    /\ log[i].kind = kind
    /\ log[i].user.id = get.user.id
    /\ ~\E j \in (i + 1)..get.readAt : IsWrite(j, kind, get.user.id, log[i].body.movieId.n)

(***************************************************************************)
(* C1 as stated: after a successful PUT /api/status {movieId, status}, a   *)
(* later GET /api/user-data by the same user, with no PUT /api/status by   *)
(* that user for that movie in between, returns watchStates[movieId] =     *)
(* status, and no key for movieId when status was null.                    *)
(***************************************************************************)
C1_StatusAlwaysReflected ==
    UserDataAnswered =>
        LET get == log[Len(log)]
        IN  \A i \in WriteIndexes :
                LatestPutBefore(i, "PUT /api/status", get) =>
                    KeyReflects(last.json.watchStates, log[i].body.movieId.n, log[i].body.status)

(***************************************************************************)
(* C1 amended: the same, provided no request that read the store before    *)
(* the PUT wrote it writes the store between that write and the read of    *)
(* the GET.                                                                *)
(***************************************************************************)
C1_StatusReflected ==
    UserDataAnswered =>
        LET get == log[Len(log)]
        IN  \A i \in WriteIndexes :
                (LatestPutBefore(i, "PUT /api/status", get) /\ ~StaleWriteAfter(i, get.readAt)) =>
                    KeyReflects(last.json.watchStates, log[i].body.movieId.n, log[i].body.status)

\* a GET answered after a status was set over another, and one after a status was removed
C1_Witness ==
    /\ UserDataAnswered
    /\ LET get == log[Len(log)]
       IN  \E i \in WriteIndexes :
              /\ LatestPutBefore(i, "PUT /api/status", get)
              /\ ~StaleWriteAfter(i, get.readAt)
              /\ log[i].body.status = JSNull
              /\ Has(log[log[i].readAt].out.users, get.user.id)
              /\ Has(log[log[i].readAt].out.users[get.user.id].watchStates, log[i].body.movieId.n)
              /\ ~Has(last.json.watchStates, log[i].body.movieId.n)

(***************************************************************************)
(* C2 as stated: after PUT /api/rating {movieId, rating: r}, a later GET   *)
(* /api/user-data by that user (no PUT /api/rating by that user for that   *)
(* movie in between) returns ratings[movieId] = r whatever was stored      *)
(* before, and no entry when the rating was null.                          *)
(***************************************************************************)
C2_RatingAlwaysReflected ==
    UserDataAnswered =>
        LET get == log[Len(log)]
        IN  \A i \in WriteIndexes :
                LatestPutBefore(i, "PUT /api/rating", get) =>
                    KeyReflects(last.json.ratings, log[i].body.movieId.n, log[i].body.rating)

(***************************************************************************)
(* C2 amended: the same, provided no request that read the store before    *)
(* the PUT wrote it writes the store between that write and the read of    *)
(* the GET.                                                                *)
(***************************************************************************)
C2_RatingReflected ==
    UserDataAnswered =>
        LET get == log[Len(log)]
        IN  \A i \in WriteIndexes :
                (LatestPutBefore(i, "PUT /api/rating", get) /\ ~StaleWriteAfter(i, get.readAt)) =>
                    KeyReflects(last.json.ratings, log[i].body.movieId.n, log[i].body.rating)

\* a GET answered with a rating that replaced a different one
C2_Witness ==
    /\ UserDataAnswered
    /\ LET get == log[Len(log)]
       IN  \E i \in WriteIndexes :
              /\ LatestPutBefore(i, "PUT /api/rating", get)
              /\ ~StaleWriteAfter(i, get.readAt)
              /\ log[i].body.rating # JSNull
              /\ Has(log[log[i].readAt].out.users, get.user.id)
              /\ LET before == log[log[i].readAt].out.users[get.user.id].ratings
                 IN  /\ Has(before, log[i].body.movieId.n)
                     /\ before[log[i].body.movieId.n] # log[i].body.rating
              /\ last.json.ratings[log[i].body.movieId.n] = log[i].body.rating

(***************************************************************************)
(* What the API accepts, as the interface states it.                       *)
(***************************************************************************)
NumericMovieId(body) == body.movieId.t = "number"

AllowedStatus(body) ==
    body.status \in {Str("watched"), Str("watching"), Str("watchlist"), JSNull}

AllowedRating(body) ==
    \/ body.rating = JSNull
    \/ body.rating.t = "number" /\ ~body.rating.frac /\ body.rating.n \in 1..5

HasText(body) ==
    /\ body.content.t = "string"
    /\ \E k \in DOMAIN body.content.cs : body.content.cs[k] # " "

\* the step leaves the store, the suspended handlers and the history as they were
NothingWritten == file' = file /\ inflight' = inflight /\ log' = log

(***************************************************************************)
(* C3: an authenticated request that fails validation (rating not null and *)
(* not an integer in 1..5, status not null and not one of the three, empty *)
(* or whitespace-only or missing content, non-numeric movieId) is answered *)
(* 400 and leaves the whole store as it was.                               *)
(***************************************************************************)
C3_InvalidRejected ==
    [][nreq' # nreq => \A u \in Identities :
        /\ \A b \in StatusBodies :
              (~(NumericMovieId(b) /\ AllowedStatus(b)) /\ PutStatus(u, b))
                  => (last'.code = 400 /\ NothingWritten)
        /\ \A b \in RatingBodies :
              (~(NumericMovieId(b) /\ AllowedRating(b)) /\ PutRating(u, b))
                  => (last'.code = 400 /\ NothingWritten)
        /\ \A b \in ReviewBodies :
              (~(NumericMovieId(b) /\ HasText(b) /\ AllowedRating(b)) /\ PostReviews(u, b))
                  => (last'.code = 400 /\ NothingWritten)]_vars

\* a rating out of range was refused while the store held a rating and a handler was suspended
C3_Witness ==
    /\ last = Response("PUT /api/rating", 400, [error |-> "Invalid rating"])
    /\ \E u \in DOMAIN file.users : file.users[u].ratings # EmptyObj
    /\ inflight # EmptyBag

(***************************************************************************)
(* C4: PUT /api/status, PUT /api/rating and POST /api/reviews without an   *)
(* authenticated session answer 401 for any body and neither read nor      *)
(* write the store.                                                        *)
(***************************************************************************)
C4_UnauthenticatedRejected ==
    [][nreq' # nreq =>
        /\ \A b \in StatusBodies : PutStatus(NoUser, b) => (last'.code = 401 /\ NothingWritten)
        /\ \A b \in RatingBodies : PutRating(NoUser, b) => (last'.code = 401 /\ NothingWritten)
        /\ \A b \in ReviewBodies : PostReviews(NoUser, b) => (last'.code = 401 /\ NothingWritten)
      ]_vars

\* a review was refused for want of a session while the store held records
C4_Witness ==
    /\ last = Response("POST /api/reviews", 401, [error |-> "Unauthorized"])
    /\ file.users # EmptyObj
    /\ Len(log) > 1

(***************************************************************************)
(* C5: GET /api/reviews/:movieId returns exactly the stored reviews of     *)
(* that movie, each created no earlier than the one after it.              *)
(***************************************************************************)
Occurrences(x, seq) == Cardinality({k \in DOMAIN seq : seq[k] = x})

SameReviews(a, b) ==
    \A x \in {a[k] : k \in DOMAIN a} \cup {b[k] : k \in DOMAIN b} :
        Occurrences(x, a) = Occurrences(x, b)

OfMovie(reviews, movieId) ==
    LET Matches(review) == review.movieId = movieId
    IN  SelectSeq(reviews, Matches)

NewestFirst(reviews) ==
    \A k \in 1..(Len(reviews) - 1) :
        GetTime(reviews[k].createdAt) >= GetTime(reviews[k + 1].createdAt)

C5_ReviewsNewestFirst ==
    [][nreq' # nreq => \A m \in ParamIds :
        ApiReviews(m) =>
            /\ last'.code = 200
            /\ SameReviews(last'.json.reviews, OfMovie(file.reviews, m))
            /\ NewestFirst(last'.json.reviews)]_vars

\* two reviews of one movie, created at different times, were returned
C5_Witness ==
    /\ last.kind = "GET /api/reviews/:movieId"
    /\ Len(last.json.reviews) = 2
    /\ GetTime(last.json.reviews[1].createdAt) > GetTime(last.json.reviews[2].createdAt)

(***************************************************************************)
(* C6 and C8: reviews.                                                     *)
(***************************************************************************)
\* t is cs without its leading and trailing spaces
IsTrimOf(t, cs) ==
    /\ t = <<>> \/ (t[1] # " " /\ t[Len(t)] # " ")
    /\ \E lead \in 0..Len(cs) :
          /\ lead + Len(t) <= Len(cs)
          /\ t = SubSeq(cs, lead + 1, lead + Len(t))
          /\ \A k \in 1..lead : cs[k] = " "
          /\ \A k \in (lead + Len(t) + 1)..Len(cs) : cs[k] = " "

\* the review POST /api/reviews returned when it wrote version i
ReviewOf(i) == Head(log[i].out.reviews)

IsReviewWrite(i, movieId) ==
    log[i].kind = "POST /api/reviews" /\ log[i].body.movieId = movieId

\* write i stored a review of the movie and no review of it was created since
LatestReviewOf(i, movieId) ==
    /\ IsReviewWrite(i, movieId)
    /\ ~\E j \in (i + 1)..Len(log) : IsReviewWrite(j, movieId)
    /\ ~\E r \in BagToSet(inflight) : r.kind = "POST /api/reviews" /\ r.body.movieId = movieId

\* POST /api/reviews answers 201 with the caller's name and id and the trimmed text
ReviewReturned ==
    \A r \in BagToSet(inflight) :
        PostReviewsDone(r) =>
            /\ last'.code = 201
            /\ last'.json.review.author = r.user.displayName
            /\ last'.json.review.userId = r.user.id
            /\ last'.json.review.movieId = r.body.movieId
            /\ IsTrimOf(last'.json.review.content, r.body.content.cs)

(***************************************************************************)
(* C6 as stated: a valid POST /api/reviews returns 201 with a review whose *)
(* author is the caller's display name, whose userId is the caller's id    *)
(* and whose content is the trimmed text; any GET /api/reviews/:movieId    *)
(* issued before a later review of that movie is created returns that      *)
(* review first.                                                           *)
(***************************************************************************)
C6_ReviewAlwaysFirst ==
    [][/\ ReviewReturned
       /\ nreq' # nreq => \A m \in ParamIds :
             ApiReviews(m) =>
                 \A i \in WriteIndexes :
                     LatestReviewOf(i, m) =>
                         /\ last'.json.reviews # <<>>
                         /\ Head(last'.json.reviews) = ReviewOf(i)]_vars

(***************************************************************************)
(* C6 amended: the same, the GET returning the review first provided no    *)
(* request that read the store before the review was written has written   *)
(* the store since.                                                        *)
(***************************************************************************)
C6_ReviewFirst ==
    [][/\ ReviewReturned
       /\ nreq' # nreq => \A m \in ParamIds :
             ApiReviews(m) =>
                 \A i \in WriteIndexes :
                     (LatestReviewOf(i, m) /\ ~StaleWriteAfter(i, Len(log))) =>
                         /\ last'.json.reviews # <<>>
                         /\ Head(last'.json.reviews) = ReviewOf(i)]_vars

\* a GET returned the later of two reviews of a movie first, its text trimmed
C6_Witness ==
    /\ last.kind = "GET /api/reviews/:movieId"
    /\ Len(last.json.reviews) = 2
    /\ \E i \in WriteIndexes :
          /\ LatestReviewOf(i, Head(last.json.reviews).movieId)
          /\ ~StaleWriteAfter(i, Len(log))
          /\ Head(last.json.reviews) = ReviewOf(i)
          /\ ReviewOf(i).author = log[i].user.displayName
          /\ ReviewOf(i).content # log[i].body.content.cs

(***************************************************************************)
(* C7: the read-then-write is not atomic.  When two PUT /api/status        *)
(* requests of one user for different movies overlap, the second to write  *)
(* having read before the first wrote, the store after the second write    *)
(* holds the second update and, for the first movie, what the second       *)
(* request read: the first update is gone although both were answered 200. *)
(***************************************************************************)
StatusOf(store, userId, movie) ==
    IF Has(store.users, userId) THEN ValueAt(store.users[userId].watchStates, movie) ELSE JSNull

\* writes i < j are PUT /api/status of one user for different movies and j read before i wrote
OverlappingStatusWrites(i, j) ==
    /\ i < j
    /\ log[i].kind = "PUT /api/status"
    /\ log[j].kind = "PUT /api/status"
    /\ log[i].user.id = log[j].user.id
    /\ log[i].body.movieId.n # log[j].body.movieId.n
    /\ log[j].readAt < i

C7_LastWriterWins ==
    \A i \in WriteIndexes :
        LET j == Len(log)
        IN  OverlappingStatusWrites(i, j) =>
                /\ StatusOf(readStore(file), log[i].user.id, log[i].body.movieId.n)
                       = StatusOf(log[log[j].readAt].out, log[i].user.id, log[i].body.movieId.n)
                /\ StatusOf(readStore(file), log[j].user.id, log[j].body.movieId.n)
                       = log[j].body.status

\* both requests were answered, nothing is pending, and the first status is not in the store
C7_Witness ==
    /\ inflight = EmptyBag
    /\ last = Response("PUT /api/status", 200, last.json)
    /\ \E i \in WriteIndexes :
          /\ OverlappingStatusWrites(i, Len(log))
          /\ log[i].body.status # JSNull
          /\ StatusOf(readStore(file), log[i].user.id, log[i].body.movieId.n) = JSNull
          /\ StatusOf(readStore(file), log[i].user.id, log[Len(log)].body.movieId.n)
                 = log[Len(log)].body.status
          /\ log[Len(log)].body.status # JSNull

(***************************************************************************)
(* C8 as stated: once POST /api/reviews has returned a review, every later *)
(* store holds that review with the same id, movieId, author, rating,      *)
(* content, createdAt and userId.                                          *)
(***************************************************************************)
C8_ReviewAlwaysKept ==
    \A i \in WriteIndexes :
        log[i].kind = "POST /api/reviews" => Occurrences(ReviewOf(i), file.reviews) > 0

(***************************************************************************)
(* C8 amended: the same, provided no request that read the store before    *)
(* the review was written writes the store afterwards.                     *)
(***************************************************************************)
C8_ReviewKept ==
    \A i \in WriteIndexes :
        (log[i].kind = "POST /api/reviews" /\ ~StaleWriteAfter(i, Len(log)))
            => Occurrences(ReviewOf(i), file.reviews) > 0

\* the author changed the rating of the movie after the review; the review kept its rating
C8_Witness ==
    \E i \in WriteIndexes : \E j \in (i + 1)..Len(log) :
        /\ log[i].kind = "POST /api/reviews"
        /\ ~StaleWriteAfter(i, Len(log))
        /\ log[j].kind = "PUT /api/rating"
        /\ log[j].user.id = log[i].user.id
        /\ log[j].body.movieId = log[i].body.movieId
        /\ log[j].body.rating # ReviewOf(i).rating
        /\ Occurrences(ReviewOf(i), file.reviews) > 0

(***************************************************************************)
(* C9 as stated: once an authenticated GET /api/me, GET /api/user-data,    *)
(* PUT /api/status or PUT /api/rating has completed, every later store     *)
(* holds one record under that user's id.                                  *)
(***************************************************************************)
RecordKinds == {"GET /api/me", "GET /api/user-data", "PUT /api/status", "PUT /api/rating"}

C9_RecordAlwaysKept ==
    \A i \in WriteIndexes :
        log[i].kind \in RecordKinds => Has(file.users, log[i].user.id)

(***************************************************************************)
(* C9 amended: the same, provided no request that read the store before    *)
(* that request wrote it writes the store afterwards.                      *)
(***************************************************************************)
C9_RecordKept ==
    \A i \in WriteIndexes :
        (log[i].kind \in RecordKinds /\ ~StaleWriteAfter(i, Len(log)))
            => Has(file.users, log[i].user.id)

\* GET /api/me created a record that another user's later write left in place
C9_Witness ==
    \E i \in WriteIndexes : \E j \in (i + 1)..Len(log) :
        /\ log[i].kind = "GET /api/me"
        /\ ~Has(log[log[i].readAt].out.users, log[i].user.id)
        /\ ~StaleWriteAfter(i, Len(log))
        /\ log[j].user.id # log[i].user.id
        /\ Has(file.users, log[i].user.id)

(***************************************************************************)
(* C10: GET /api/me without a session returns user = null and changes      *)
(* nothing; with a session it returns the session identity and leaves the  *)
(* store it read with the caller's record upserted: profile = the session  *)
(* identity, watchStates and ratings as they were (both empty for a new    *)
(* record), everything else as it was.                                     *)
(***************************************************************************)
UpsertOf(before, user, after) ==
    /\ after.reviews = before.reviews
    /\ DOMAIN after.users = (DOMAIN before.users) \cup {user.id}
    /\ \A other \in (DOMAIN before.users) \ {user.id} : after.users[other] = before.users[other]
    /\ after.users[user.id].profile = user
    /\ after.users[user.id].watchStates =
           IF Has(before.users, user.id) THEN before.users[user.id].watchStates ELSE EmptyObj
    /\ after.users[user.id].ratings =
           IF Has(before.users, user.id) THEN before.users[user.id].ratings ELSE EmptyObj

C10_MeUpserts ==
    [][/\ (nreq' # nreq /\ ApiMe(NoUser)) =>
              (last'.code = 200 /\ last'.json = [user |-> NoUser] /\ NothingWritten)
       /\ \A r \in BagToSet(inflight) :
              ApiMeDone(r) =>
                  /\ last'.code = 200
                  /\ last'.json = [user |-> r.user]
                  /\ file'.parses
                  /\ UpsertOf(log[r.readAt].out, r.user, readStore(file'))
                  /\ r.readAt = Len(log) => UpsertOf(readStore(file), r.user, readStore(file'))
      ]_vars

\* Ann's record, stored under the profile Annie, took the profile Ann and kept its watch state
C10_Witness ==
    /\ last = Response("GET /api/me", 200, [user |-> Ann])
    /\ Has(file.users, 1)
    /\ file.users[1].profile = Ann
    /\ file.users[1].watchStates = (2 :> Str("watched"))
    /\ log[log[Len(log)].readAt].out.users[1].profile = Annie

(***************************************************************************)
(* C11: while the store file does not parse, a request that reads the      *)
(* store reads the empty store and is answered normally: GET               *)
(* /api/reviews/:movieId answers 200 with no reviews, and every other      *)
(* handler goes on to write a document that holds nothing but its own      *)
(* update and then answers 200 or 201.  The read leaves the file as it     *)
(* was; the next write replaces it with a document that parses.            *)
(***************************************************************************)
\* the handler that suspended in this step
NewPending(r) == CopiesIn(r, inflight') = CopiesIn(r, inflight) + 1

\* the document r will write is the empty store with r's own update and nothing else
OnlyOwnUpdate(r) ==
    /\ DOMAIN r.out.users \subseteq {r.user.id}
    /\ \A u \in DOMAIN r.out.users :
          /\ DOMAIN r.out.users[u].watchStates \subseteq {r.body.movieId.n}
          /\ DOMAIN r.out.users[u].ratings \subseteq {r.body.movieId.n}
    /\ Len(r.out.reviews) = IF r.kind = "POST /api/reviews" THEN 1 ELSE 0

C11_MalformedReadsEmpty ==
    [][/\ (~file.parses /\ nreq' # nreq) =>
              /\ file' = file
              /\ \A m \in ParamIds :
                    ApiReviews(m) => (last'.code = 200 /\ last'.json = [reviews |-> <<>>])
              /\ \A r \in BagToSet(inflight') :
                    NewPending(r) => (r.readAt = Len(log) /\ OnlyOwnUpdate(r))
       /\ (~file.parses /\ nreq' = nreq) =>
              /\ last'.code \in {200, 201}
              /\ file'.parses
              /\ \E r \in BagToSet(inflight) :
                    /\ readStore(file') = r.out
                    /\ r.readAt = 1 => OnlyOwnUpdate(r)
      ]_vars

\* the reviews of a movie were read from the file that does not parse after a handler had read it
C11_Witness ==
    /\ ~file.parses
    /\ inflight # EmptyBag
    /\ last = Response("GET /api/reviews/:movieId", 200, [reviews |-> <<>>])

(***************************************************************************)
(* C12: the recommendation heuristic.  A movie of the browse list weighs 2 *)
(* when its local rating is at least 4, otherwise 1 when its status is     *)
(* watched or watchlist, otherwise 0; a genre's weight is the sum of the   *)
(* weights of the movies that carry it; the ranked genres are the (at most *)
(* two) genres of positive weight with the largest weights, the heavier    *)
(* first, so no genre left out or ranked lower is heavier than one ranked  *)
(* above it.                                                               *)
(***************************************************************************)
HeuristicWeight(ws, rs, movie) ==
    IF Has(rs, movie.id) /\ rs[movie.id].n >= 4 THEN 2
    ELSE IF Has(ws, movie.id) /\ ws[movie.id] \in {Str("watched"), Str("watchlist")} THEN 1
    ELSE 0

HasGenre(movie, g) == \E k \in DOMAIN movie.genre_ids : movie.genre_ids[k] = g

GenresOf(ms) == UNION {{ms[k].genre_ids[j] : j \in DOMAIN ms[k].genre_ids} : k \in DOMAIN ms}

RECURSIVE GenreSum(_, _, _, _)
GenreSum(ms, ws, rs, g) ==
    IF ms = <<>> THEN 0
    ELSE (IF HasGenre(Head(ms), g) THEN HeuristicWeight(ws, rs, Head(ms)) ELSE 0)
             + GenreSum(Tail(ms), ws, rs, g)

RankingRight(ms, ws, rs, ranked) ==
    LET positive == {g \in GenresOf(ms) : GenreSum(ms, ws, rs, g) > 0}
        chosen == {ranked[k] : k \in DOMAIN ranked}
        acc == GenreWeights(ms, ws, rs)
    IN  /\ DOMAIN acc = positive
        /\ \A g \in positive : acc[g] = GenreSum(ms, ws, rs, g)
        /\ Len(ranked) = IF Cardinality(positive) < 2 THEN Cardinality(positive) ELSE 2
        /\ Cardinality(chosen) = Len(ranked)
        /\ chosen \subseteq positive
        /\ \A k \in DOMAIN ranked : \A g \in positive \ chosen :
              GenreSum(ms, ws, rs, g) <= GenreSum(ms, ws, rs, ranked[k])
        /\ \A k \in 1..(Len(ranked) - 1) :
              GenreSum(ms, ws, rs, ranked[k]) >= GenreSum(ms, ws, rs, ranked[k + 1])

C12_TopGenresByWeight ==
    /\ RankingRight(movies, watchStates, ratings, rankedGenres(movies, watchStates, ratings))
    /\ \A c \in BagToSet(calls) :
          c.kind = "loadRecommendations"
              => RankingRight(c.movies, c.watchStates, c.ratings, c.rankedGenres)

\* two Action movies rated 5 and a Drama movie on the watchlist: the catalog is asked
\* for Action (28) before Drama (18)
C12_Witness ==
    /\ Has(ratings, 11) /\ ratings[11] = Num(5)
    /\ Has(ratings, 12) /\ ratings[12] = Num(5)
    /\ Has(watchStates, 13) /\ watchStates[13] = Str("watchlist")
    /\ \E c \in BagToSet(calls) :
          /\ c.kind = "loadRecommendations"
          /\ c.movies = movies /\ c.watchStates = watchStates /\ c.ratings = ratings
          /\ c.rankedGenres = <<28, 18>>

(***************************************************************************)
(* C13 as stated: whenever loadRecommendations finishes, the list respects *)
(* tracking.  When it finishes with the catalog's results, no movie of the *)
(* list has a local watch status; when it finishes by a fallback (no genre *)
(* of positive weight, no credentials, or a failed catalog call), the list *)
(* holds only movies of the browse list that are untracked or on the       *)
(* watchlist.                                                              *)
(***************************************************************************)
Untracked(ws, movie) == ~Has(ws, movie.id)

UntrackedOrWatchlist(ws, movie) == ~Has(ws, movie.id) \/ ws[movie.id] = Str("watchlist")

InBrowseList(ms, movie) == \E k \in DOMAIN ms : ms[k] = movie

\* the step started no catalog fetch for recommendations
NoNewCall ==
    \A c \in BagToSet(calls') :
        c.kind = "loadRecommendations" => CopiesIn(c, calls') <= CopiesIn(c, calls)

\* the step ran loadRecommendations: the effect on [movies, watchStates, ratings] fired
EffectRan == movies' # movies \/ watchStates' # watchStates \/ ratings' # ratings

FallbackRespectsTracking ==
    \A k \in DOMAIN recommendations' :
        /\ InBrowseList(movies', recommendations'[k])
        /\ UntrackedOrWatchlist(watchStates', recommendations'[k])

C13_RecommendationsRespectTracking ==
    [][/\ \A c \in BagToSet(calls) :
              /\ (\E results \in DiscoverResults : RecommendationsRespond(c, results)) =>
                     \A k \in DOMAIN recommendations' :
                         Untracked(watchStates', recommendations'[k])
              /\ RecommendationsFail(c) => FallbackRespectsTracking
       /\ (EffectRan /\ NoNewCall) => FallbackRespectsTracking
      ]_vars

(***************************************************************************)
(* C14 as stated: from every state in which a movie has a watch status,    *)
(* the user has an action that changes it to another status and an action  *)
(* that returns the movie to untracked; a signed-in user's removal is sent *)
(* as PUT /api/status with status null.                                    *)
(***************************************************************************)
\* what the user can do on a movie card: the status chips and the stars
UserAction ==
    \/ \E k \in DOMAIN movies, s \in WatchStates : onStatusChange(movies[k].id, s)
    \/ \E k \in DOMAIN movies, r \in Stars : onRatingChange(movies[k].id, r)

RemovalSent(m) ==
    (env.api /\ isSignedIn) =>
        \E msg \in BagToSet(net') :
            /\ msg.kind = "PUT /api/status"
            /\ msg.body.movieId = Num(m)
            /\ msg.body.status = JSNull
            /\ CopiesIn(msg, net') > CopiesIn(msg, net)

CanChangeStatus(m) ==
    ENABLED (UserAction /\ Has(watchStates', m) /\ watchStates'[m] # watchStates[m])

CanRemoveStatus(m) ==
    ENABLED (UserAction /\ ~Has(watchStates', m) /\ RemovalSent(m))

C14_StatusCanBeChangedAndRemoved ==
    \A m \in DOMAIN watchStates :
        (Shown(m) /\ clicks < MaxClicks) => CanChangeStatus(m) /\ CanRemoveStatus(m)

(***************************************************************************)
(* C15 as stated: user state is scoped to the caller.  GET /api/user-data  *)
(* answers with the caller's own watchStates and ratings, and a PUT        *)
(* /api/status, PUT /api/rating or POST /api/reviews of user A, whenever   *)
(* it completes, leaves the watchStates and ratings stored for every other *)
(* user B as they were.                                                    *)
(***************************************************************************)
MutatingKinds == {"PUT /api/status", "PUT /api/rating", "POST /api/reviews"}

\* the watch states and ratings the file holds for a user (none without a record)
TrackingOf(f, userId) ==
    IF Has(readStore(f).users, userId)
    THEN [watchStates |-> readStore(f).users[userId].watchStates,
          ratings |-> readStore(f).users[userId].ratings]
    ELSE [watchStates |-> EmptyObj, ratings |-> EmptyObj]

\* the request whose write this step made
Written == log'[Len(log')]

C15_ScopedToCaller ==
    [][Len(log') > Len(log) =>
          /\ Written.kind = "GET /api/user-data" =>
                LET own == RecordOrDefault(log[Written.readAt].out, Written.user)
                IN  last'.json = [watchStates |-> own.watchStates, ratings |-> own.ratings]
          /\ Written.kind \in MutatingKinds =>
                \A b \in UserIds \ {Written.user.id} :
                    TrackingOf(file', b) = TrackingOf(file, b)
      ]_vars

(***************************************************************************)
(* C16: in every store reachable through API requests, every entry of      *)
(* every user's watchStates is one of watched, watching, watchlist; every  *)
(* entry of every user's ratings is an integer from 1 to 5; and every      *)
(* stored review has non-empty content without leading or trailing         *)
(* whitespace and a rating that is null or an integer from 1 to 5.         *)
(***************************************************************************)
IsStatusValue(v) == v \in {Str("watched"), Str("watching"), Str("watchlist")}

IsStarValue(v) == v \in {Num(i) : i \in 1..5}

IsTrimmedText(cs) == cs # <<>> /\ cs[1] # " " /\ cs[Len(cs)] # " "

ReadKinds == {"GET /api/me", "GET /api/user-data"}

C17_ReadsChangeNothing ==
    [][(Len(log') > Len(log) /\ Written.kind \in ReadKinds) =>
          /\ \A u \in UserIds : TrackingOf(file', u) = TrackingOf(file, u)
          /\ readStore(file').reviews = readStore(file).reviews
      ]_vars

(***************************************************************************)
(* C18 as stated: review ids are unique.  In every reachable store no two  *)
(* reviews of the review list have the same id, whatever POST              *)
(* /api/reviews requests were made, several reviews of one movie within    *)
(* one millisecond of the clock included.                                  *)
(***************************************************************************)
C18_ReviewIdsUnique ==
    \A i \in DOMAIN file.reviews : \A j \in DOMAIN file.reviews :
        i # j => file.reviews[i].id # file.reviews[j].id

(***************************************************************************)
(* C19 as stated: once every catalog request has completed, the browse     *)
(* list, the active movie and the loading flag are those of the feed       *)
(* selected last: the list is the catalog's answer for that feed (or the   *)
(* bundled sample when its request failed), the active movie is the first  *)
(* of that answer, and nothing is loading.  The response to an earlier     *)
(* loadMovies call that arrives after the response to a later one has not  *)
(* overwritten the later call's results.                                   *)
(***************************************************************************)
C19_BrowseListOfLatestFeed ==
    (env.tmdb /\ calls = EmptyBag) =>
        /\ ~loading
        /\ \/ movies = fallbackMovies
           \/ /\ movies = Slice(TmdbResults(feed), 24)
              /\ activeMovie = IF movies # <<>> THEN movies[1] ELSE NoMovie

(***************************************************************************)
(* C20 as stated: for a signed-in user with the backend configured, once   *)
(* loadUserData has completed and no status or rating request is in        *)
(* flight, the frontend's watchStates and ratings equal the ones stored on *)
(* the server for that user, after any onStatusChange and onRatingChange   *)
(* actions, whether their requests were served, failed, or were served in  *)
(* another order than they were sent.                                      *)
(***************************************************************************)
TrackingKinds == {"PUT /api/status", "PUT /api/rating"}

\* a request of one of the kinds is on its way or its handler has not finished
InFlight(kinds) ==
    \/ \E msg \in BagToSet(net) : msg.kind \in kinds
    \/ \E r \in BagToSet(inflight) : r.kind \in kinds

\* the server answered GET /api/user-data and the frontend has read the answer
UserDataCompleted ==
    /\ \E i \in WriteIndexes : log[i].kind = "GET /api/user-data"
    /\ ~InFlight({"GET /api/user-data"})

C20_LocalEqualsServer ==
    (env.api /\ isSignedIn /\ UserDataCompleted /\ ~InFlight(TrackingKinds)) =>
        /\ watchStates = TrackingOf(file, currentUser.id).watchStates
        /\ ratings = TrackingOf(file, currentUser.id).ratings

====
